---- MODULE Spec2Model ----
(***************************************************************************)
(* MindMesh (rllm): the command risk assessment of core/safety.py and the  *)
(* execution gate of main.ask, with the session history of core/context.py *)
(* and the record store of storage/command_store.py that the gate writes.  *)
(*                                                                         *)
(* Command texts are Python strings.  The model names a command by its     *)
(* text and spells it as a sequence of one-character strings               *)
(* (CommandText), over which the regular expressions, the substring tests  *)
(* and strip()/startswith() of the validator are computed.                 *)
(***************************************************************************)
EXTENDS Integers, Sequences, FiniteSets, TLC

VARIABLES
    system_paths,       \* SafetyValidator.system_paths in the iteration order of this process
    pc,                 \* position of main.ask; at its end "Done" (returned), "Exit1"
                        \* (typer.Exit(1)) or "Aborted" (KeyboardInterrupt)
    query,              \* ask(query, ...)
    execute,            \* ask(..., execute, ...)
    dry_run,            \* ask(..., dry_run)
    result,             \* ParseResult returned by intent_parser.parse, or None
    risk_assessment,    \* RiskAssessment computed by ask, or None
    should_execute,     \* local of ask
    prompts,            \* Confirm.ask calls made by ask, with their answers
    executions,         \* outcomes of the calls of _execute_command ("running" until it returns)
    displayed,          \* risk warnings printed by ask
    history,            \* ContextManager.history
    store,              \* rows of the commands table
    sqlite_sequence,    \* largest id the commands table has assigned (AUTOINCREMENT)
    command,            \* validator harness: the text last passed to validate
    assessment,         \* validator harness: what validate returned for it
    blocked,            \* validator harness: what is_command_blocked returned for it
    prev_command,       \* validator harness: the text assessed before that
    prev_assessment,    \* validator harness: its assessment
    now,                \* the clock CURRENT_TIMESTAMP and datetime('now') read, in seconds
    ticks,              \* number of times the clock has advanced
    issued,             \* the ids store_command has returned so far, in order
    last_call,          \* the last call of a CommandStore method, with what it returned
    ops,                \* number of ContextManager calls made on the session so far
    response,           \* what llm_service.generate_response gave this request's parse
    previous            \* what an earlier request of the same command did and stored

ask_vars == <<pc, query, execute, dry_run, result, risk_assessment, should_execute,
              prompts, executions, displayed>>
gate_vars == <<ask_vars, history, store, sqlite_sequence>>
validator_vars == <<command, assessment, blocked, prev_command, prev_assessment>>
store_vars == <<now, ticks, issued, last_call>>
request_vars == <<response, previous>>
vars == <<system_paths, gate_vars, validator_vars, store_vars, ops, request_vars>>

None == "None"

(***************************************************************************)
(* Text                                                                    *)
(***************************************************************************)
Range(s) == {s[i] : i \in DOMAIN s}

Min(a, b) == IF a < b THEN a ELSE b

UpperCase == <<"A", "B", "C", "D", "E", "F", "G", "H", "I", "J", "K", "L", "M",
               "N", "O", "P", "Q", "R", "S", "T", "U", "V", "W", "X", "Y", "Z">>
LowerCase == <<"a", "b", "c", "d", "e", "f", "g", "h", "i", "j", "k", "l", "m",
               "n", "o", "p", "q", "r", "s", "t", "u", "v", "w", "x", "y", "z">>
Digits == {"0", "1", "2", "3", "4", "5", "6", "7", "8", "9"}

\* str.lower() of one character, as re.IGNORECASE folds it
Lower(c) ==
    IF \E i \in DOMAIN UpperCase : UpperCase[i] = c
    THEN LowerCase[CHOOSE i \in DOMAIN UpperCase : UpperCase[i] = c]
    ELSE c

\* \s
IsSpace(c) == c \in {" ", "\t", "\n", "\r"}
\* \w
IsWord(c) == c \in Range(LowerCase) \cup Range(UpperCase) \cup Digits \cup {"_"}

\* Python's `sub in s`
Contains(s, sub) ==
    \E i \in 0..(Len(s) - Len(sub)) : \A j \in 1..Len(sub) : s[i + j] = sub[j]

\* str.startswith
StartsWith(s, prefix) ==
    Len(prefix) <= Len(s) /\ \A j \in 1..Len(prefix) : s[j] = prefix[j]

RECURSIVE LStrip(_)
LStrip(s) == IF s # <<>> /\ IsSpace(Head(s)) THEN LStrip(Tail(s)) ELSE s

RECURSIVE RStrip(_)
RStrip(s) == IF s # <<>> /\ IsSpace(s[Len(s)]) THEN RStrip(SubSeq(s, 1, Len(s) - 1)) ELSE s

\* str.strip()
Strip(s) == RStrip(LStrip(s))

(***************************************************************************)
(* Regular expressions: a pattern is a sequence of elements, each a        *)
(* character class with a quantifier ("1", "?" or "*"); x+ is x x*.        *)
(***************************************************************************)
Lit(cs)   == [i \in 1..Len(cs) |-> [cls |-> "lit", ch |-> cs[i], q |-> "1"]]
Opt(c)    == << [cls |-> "lit", ch |-> c, q |-> "?"] >>
SpacePlus == << [cls |-> "space", ch |-> "", q |-> "1"], [cls |-> "space", ch |-> "", q |-> "*"] >>
SpaceStar == << [cls |-> "space", ch |-> "", q |-> "*"] >>
AnyStar   == << [cls |-> "any", ch |-> "", q |-> "*"] >>
WordPlus  == << [cls |-> "word", ch |-> "", q |-> "1"], [cls |-> "word", ch |-> "", q |-> "*"] >>

ElemMatches(e, c, ignorecase) ==
    CASE e.cls = "lit"   -> IF ignorecase THEN Lower(c) = Lower(e.ch) ELSE c = e.ch
      [] e.cls = "space" -> IsSpace(c)
      [] e.cls = "any"   -> c # "\n"
      [] e.cls = "word"  -> IsWord(c)

\* does pattern[k..] match a prefix of s[i..]
RECURSIVE MatchAt(_, _, _, _, _)
MatchAt(pattern, k, s, i, ignorecase) ==
    IF k > Len(pattern) THEN TRUE
    ELSE LET e    == pattern[k]
             here == i <= Len(s) /\ ElemMatches(e, s[i], ignorecase)
         IN  CASE e.q = "1" -> here /\ MatchAt(pattern, k + 1, s, i + 1, ignorecase)
               [] e.q = "?" -> \/ (here /\ MatchAt(pattern, k + 1, s, i + 1, ignorecase))
                               \/ MatchAt(pattern, k + 1, s, i, ignorecase)
               [] e.q = "*" -> \/ MatchAt(pattern, k + 1, s, i, ignorecase)
                               \/ (here /\ MatchAt(pattern, k, s, i + 1, ignorecase))

\* re.search(pattern, s) is not None
ReSearch(pattern, s, ignorecase) ==
    \E i \in 1..(Len(s) + 1) : MatchAt(pattern, 1, s, i, ignorecase)

(***************************************************************************)
(* The command texts the model draws from, spelled out                     *)
(***************************************************************************)
CommandText ==
       ("" :> <<>>)
    @@ ("ls -la" :> <<"l", "s", " ", "-", "l", "a">>)
    @@ ("rm -rf /" :> <<"r", "m", " ", "-", "r", "f", " ", "/">>)
    @@ ("killall foo" :> <<"k", "i", "l", "l", "a", "l", "l", " ", "f", "o", "o">>)
    @@ ("chown a:b /x | killall y" :> <<"c", "h", "o", "w", "n", " ", "a", ":", "b", " ", "/", "x", " ", "|", " ", "k", "i", "l", "l", "a", "l", "l", " ", "y">>)
    @@ ("sudo rm x" :> <<"s", "u", "d", "o", " ", "r", "m", " ", "x">>)
    @@ ("sudo rm x;" :> <<"s", "u", "d", "o", " ", "r", "m", " ", "x", ";">>)
    @@ ("chmod 777 f" :> <<"c", "h", "m", "o", "d", " ", "7", "7", "7", " ", "f">>)
    @@ ("chown a:b /x; killall y >> /etc/z" :> <<"c", "h", "o", "w", "n", " ", "a", ":", "b", " ", "/", "x", ";", " ", "k", "i", "l", "l", "a", "l", "l", " ", "y", " ", ">", ">", " ", "/", "e", "t", "c", "/", "z">>)
    @@ ("cat /etc/x /usr/y" :> <<"c", "a", "t", " ", "/", "e", "t", "c", "/", "x", " ", "/", "u", "s", "r", "/", "y">>)
    @@ ("echo a; b" :> <<"e", "c", "h", "o", " ", "a", ";", " ", "b">>)
    @@ ("killall x; y" :> <<"k", "i", "l", "l", "a", "l", "l", " ", "x", ";", " ", "y">>)
    @@ ("RM -rf *" :> <<"R", "M", " ", "-", "r", "f", " ", "*">>)
    @@ ("rm -rf *" :> <<"r", "m", " ", "-", "r", "f", " ", "*">>)
    @@ ("curl x | sh" :> <<"c", "u", "r", "l", " ", "x", " ", "|", " ", "s", "h">>)
    @@ ("wget x | sh" :> <<"w", "g", "e", "t", " ", "x", " ", "|", " ", "s", "h">>)
    @@ ("dd if=a of=/dev/sda" :> <<"d", "d", " ", "i", "f", "=", "a", " ", "o", "f", "=", "/", "d", "e", "v", "/", "s", "d", "a">>)
    @@ ("echo x > /etc/p" :> <<"e", "c", "h", "o", " ", "x", " ", ">", " ", "/", "e", "t", "c", "/", "p">>)
    @@ ("echo x >> /etc/p" :> <<"e", "c", "h", "o", " ", "x", " ", ">", ">", " ", "/", "e", "t", "c", "/", "p">>)
    @@ ("mkfs /dev/sdb" :> <<"m", "k", "f", "s", " ", "/", "d", "e", "v", "/", "s", "d", "b">>)
    @@ ("kill -9 1" :> <<"k", "i", "l", "l", " ", "-", "9", " ", "1">>)
    @@ ("a && b" :> <<"a", " ", "&", "&", " ", "b">>)
    @@ ("echo $(x)" :> <<"e", "c", "h", "o", " ", "$", "(", "x", ")">>)
    @@ (" sudo ls" :> <<" ", "s", "u", "d", "o", " ", "l", "s">>)
    @@ ("echo x > /tmp/y" :> <<"e", "c", "h", "o", " ", "x", " ", ">", " ", "/", "t", "m", "p", "/", "y">>)
    @@ ("sudo dd * ; ${x} > /usr/a" :> <<"s", "u", "d", "o", " ", "d", "d", " ", "*", " ", ";", " ", "$", "{", "x", "}", " ", ">", " ", "/", "u", "s", "r", "/", "a">>)
    @@ ("cat /usr/a /dev/b /etc/c" :> <<"c", "a", "t", " ", "/", "u", "s", "r", "/", "a", " ", "/", "d", "e", "v", "/", "b", " ", "/", "e", "t", "c", "/", "c">>)
    @@ ("chown a:b /x | killall y >/dev/null" :> <<"c", "h", "o", "w", "n", " ", "a", ":", "b", " ", "/", "x", " ", "|", " ", "k", "i", "l", "l", "a", "l", "l", " ", "y", " ", ">", "/", "d", "e", "v", "/", "n", "u", "l", "l">>)
    @@ ("df -h" :> <<"d", "f", " ", "-", "h">>)
    @@ ("echo 'Command not recognized'" :> <<"e", "c", "h", "o", " ", "'", "C", "o", "m", "m", "a", "n", "d", " ", "n", "o", "t", " ", "r", "e", "c", "o", "g", "n", "i", "z", "e", "d", "'">>)
Corpus == DOMAIN CommandText

(***************************************************************************)
(* core/safety.py                                                          *)
(***************************************************************************)
RiskLevels == {"low", "medium", "high", "critical"}

\* SafetyValidator.system_paths is a set of str; the text of each member
SystemPathText ==
       ("/etc"  :> <<"/", "e", "t", "c">>)
    @@ ("/usr"  :> <<"/", "u", "s", "r">>)
    @@ ("/boot" :> <<"/", "b", "o", "o", "t">>)
    @@ ("/sys"  :> <<"/", "s", "y", "s">>)
    @@ ("/proc" :> <<"/", "p", "r", "o", "c">>)
    @@ ("/dev"  :> <<"/", "d", "e", "v">>)

SystemPaths == DOMAIN SystemPathText

\* f"Operating on system directory: {path}"
SystemPathWarning ==
       ("/etc"  :> "Operating on system directory: /etc")
    @@ ("/usr"  :> "Operating on system directory: /usr")
    @@ ("/boot" :> "Operating on system directory: /boot")
    @@ ("/sys"  :> "Operating on system directory: /sys")
    @@ ("/proc" :> "Operating on system directory: /proc")
    @@ ("/dev"  :> "Operating on system directory: /dev")

\* SafetyValidator.destructive_commands
DestructiveCommands ==
    { <<"r", "m">>, <<"d", "d">>, <<"m", "k", "f", "s">>,
      <<"f", "d", "i", "s", "k">>, <<"w", "i", "p", "e", "f", "s">> }

\* the character ` (a TLA+ string cannot hold it)
Backquote == "backquote"

\* suspicious_chars of _heuristic_checks
SuspiciousChars ==
    << <<Backquote>>, <<"$", "(">>, <<"$", "{">>, <<"$", "(">>, <<"|", "|">>, <<"&", "&">> >>

\* the orders in which a process may iterate over the set system_paths:
\* str hashes are randomized per process, so each process has one of its own
RECURSIVE Perms(_)
Perms(S) ==
    IF S = {} THEN { <<>> }
    ELSE UNION { { <<x>> \o p : p \in Perms(S \ {x}) } : x \in S }

\* paths that no text of the corpus contains: such a path is never the hit of
\* the loop, so orders that differ only in where these stand assess every
\* text alike and one representative of each class is kept
UnusedPaths == <<"/boot", "/sys", "/proc">>

SystemPathOrders == { p \o UnusedPaths : p \in Perms(SystemPaths \ Range(UnusedPaths)) }

\* SafetyValidator._load_dangerous_patterns: the dict in insertion order
DangerousPatterns == <<
    [ pattern |-> "rm\\s+.*-rf?\\s+/",
      re      |-> Lit(<<"r", "m">>) \o SpacePlus \o AnyStar \o Lit(<<"-", "r">>) \o Opt("f")
                  \o SpacePlus \o Lit(<<"/">>),
      risk    |-> "critical",
      message |-> "Recursive deletion from root directory" ],
    [ pattern |-> "rm\\s+.*-rf?\\s+\\*",
      re      |-> Lit(<<"r", "m">>) \o SpacePlus \o AnyStar \o Lit(<<"-", "r">>) \o Opt("f")
                  \o SpacePlus \o Lit(<<"*">>),
      risk    |-> "high",
      message |-> "Recursive deletion with wildcard" ],
    [ pattern |-> "dd\\s+.*of=/dev/",
      re      |-> Lit(<<"d", "d">>) \o SpacePlus \o AnyStar
                  \o Lit(<<"o", "f", "=", "/", "d", "e", "v", "/">>),
      risk    |-> "critical",
      message |-> "Writing directly to device" ],
    [ pattern |-> "chmod\\s+777",
      re      |-> Lit(<<"c", "h", "m", "o", "d">>) \o SpacePlus \o Lit(<<"7", "7", "7">>),
      risk    |-> "high",
      message |-> "Setting world-writable permissions" ],
    [ pattern |-> "chown\\s+.*:.*\\s+/",
      re      |-> Lit(<<"c", "h", "o", "w", "n">>) \o SpacePlus \o AnyStar \o Lit(<<":">>)
                  \o AnyStar \o SpacePlus \o Lit(<<"/">>),
      risk    |-> "medium",
      message |-> "Changing ownership of system files" ],
    [ pattern |-> "curl\\s+.*\\|\\s*sh",
      re      |-> Lit(<<"c", "u", "r", "l">>) \o SpacePlus \o AnyStar \o Lit(<<"|">>)
                  \o SpaceStar \o Lit(<<"s", "h">>),
      risk    |-> "critical",
      message |-> "Downloading and executing remote script" ],
    [ pattern |-> "wget\\s+.*\\|\\s*sh",
      re      |-> Lit(<<"w", "g", "e", "t">>) \o SpacePlus \o AnyStar \o Lit(<<"|">>)
                  \o SpaceStar \o Lit(<<"s", "h">>),
      risk    |-> "critical",
      message |-> "Downloading and executing remote script" ],
    [ pattern |-> "sudo\\s+.*rm",
      re      |-> Lit(<<"s", "u", "d", "o">>) \o SpacePlus \o AnyStar \o Lit(<<"r", "m">>),
      risk    |-> "high",
      message |-> "Elevated deletion command" ],
    [ pattern |-> "mkfs\\s+",
      re      |-> Lit(<<"m", "k", "f", "s">>) \o SpacePlus,
      risk    |-> "critical",
      message |-> "Filesystem creation (destructive)" ],
    [ pattern |-> "kill\\s+-9\\s+1",
      re      |-> Lit(<<"k", "i", "l", "l">>) \o SpacePlus \o Lit(<<"-", "9">>) \o SpacePlus
                  \o Lit(<<"1">>),
      risk    |-> "critical",
      message |-> "Attempting to kill init process" ],
    [ pattern |-> "killall\\s+",
      re      |-> Lit(<<"k", "i", "l", "l", "a", "l", "l">>) \o SpacePlus,
      risk    |-> "medium",
      message |-> "Killing processes by name" ],
    [ pattern |-> ">\\s*/etc/",
      re      |-> Lit(<<">">>) \o SpaceStar \o Lit(<<"/", "e", "t", "c", "/">>),
      risk    |-> "high",
      message |-> "Overwriting system configuration" ],
    [ pattern |-> ">>\\s*/etc/",
      re      |-> Lit(<<">", ">">>) \o SpaceStar \o Lit(<<"/", "e", "t", "c", "/">>),
      risk    |-> "medium",
      message |-> "Modifying system configuration" ] >>

\* _risk_level_score with the weight of HIGH given to CRITICAL as well
RiskLevelScore_m(risk_level) ==
    CASE risk_level = "low"      -> 1
      [] risk_level = "medium"   -> 3
      [] risk_level = "high"     -> 7
      [] risk_level = "critical" -> 7
      [] OTHER                   -> 1

\* SafetyValidator._risk_level_score
RiskLevelScore(risk_level) ==
    CASE risk_level = "low"      -> 1
      [] risk_level = "medium"   -> 3
      [] risk_level = "high"     -> 7
      [] risk_level = "critical" -> 10
      [] OTHER                   -> 1

\* the loop over system_paths without its break: one warning for every
\* system path that occurs in the command
SystemPathCheck_m(text, paths) ==
    LET hit(i) == Contains(text, SystemPathText[paths[i]])
        warned == SelectSeq([i \in DOMAIN paths |-> i], hit)
    IN  [ i \in DOMAIN warned |-> SystemPathWarning[paths[warned[i]]] ]

\* the loop over system_paths in _heuristic_checks: the first path, in this
\* process' iteration order, that occurs in the command, then break
SystemPathCheck(text, paths) ==
    LET hits == {i \in DOMAIN paths : Contains(text, SystemPathText[paths[i]])}
    IN  IF hits = {} THEN <<>>
        ELSE << SystemPathWarning[paths[CHOOSE i \in hits : \A j \in hits : i <= j]] >>

\* SafetyValidator._heuristic_checks
HeuristicChecks(text, paths) ==
    (IF \/ Contains(text, <<";">>)
        \/ Contains(text, <<"&", "&">>)
        \/ Contains(text, <<"|", "|">>)
     THEN << "Command contains multiple operations" >> ELSE <<>>)
    \o
    (IF ReSearch(Lit(<<">">>) \o SpaceStar \o Lit(<<"/">>) \o WordPlus, text, FALSE)
     THEN << "Redirecting output to root-level directory" >> ELSE <<>>)
    \o
    (IF Contains(text, <<"*">>) /\ \E cmd \in DestructiveCommands : Contains(text, cmd)
     THEN << "Using wildcards with destructive commands" >> ELSE <<>>)
    \o
    (IF StartsWith(Strip(text), <<"s", "u", "d", "o">>)
     THEN << "Command requires elevated privileges" >> ELSE <<>>)
    \o
    SystemPathCheck(text, paths)
    \o
    (IF \E i \in DOMAIN SuspiciousChars : Contains(text, SuspiciousChars[i])
     THEN << "Command contains potentially suspicious characters" >> ELSE <<>>)

RECURSIVE CheckPatterns(_, _, _)

\* the loop stopped at the first rule that matches
CheckPatterns_m(text, k, acc) ==
    LET hits == {j \in k .. Len(DangerousPatterns) : ReSearch(DangerousPatterns[j].re, text, TRUE)}
    IN  IF hits = {} THEN acc
        ELSE LET config == DangerousPatterns[CHOOSE j \in hits : \A i \in hits : j <= i]
             IN  [ warnings         |-> Append(acc.warnings, config.message),
                   blocked_patterns |-> Append(acc.blocked_patterns, config.pattern),
                   max_risk         |-> IF RiskLevelScore(config.risk) > RiskLevelScore(acc.max_risk)
                                        THEN config.risk ELSE acc.max_risk,
                   score            |-> acc.score + RiskLevelScore(config.risk) * 10 ]

\* the loop of validate over dangerous_patterns.items(), from entry k on
CheckPatterns(text, k, acc) ==
    IF k > Len(DangerousPatterns) THEN acc
    ELSE LET config == DangerousPatterns[k]
         IN  IF ReSearch(config.re, text, TRUE)
             THEN CheckPatterns(text, k + 1,
                    [ warnings         |-> Append(acc.warnings, config.message),
                      blocked_patterns |-> Append(acc.blocked_patterns, config.pattern),
                      max_risk         |-> IF RiskLevelScore(config.risk) > RiskLevelScore(acc.max_risk)
                                           THEN config.risk ELSE acc.max_risk,
                      score            |-> acc.score + RiskLevelScore(config.risk) * 10 ])
             ELSE CheckPatterns(text, k + 1, acc)

\* the adjustment with the sign flipped
HeuristicScore_m(additional_warnings) == 0 - Len(additional_warnings) * 5

\* validate: "Adjust score based on additional warnings"
HeuristicScore(additional_warnings) == Len(additional_warnings) * 5

\* the final level taken from the matched patterns alone, no thresholds
FinalRisk_m(score, max_risk) == max_risk

\* validate: "Determine final risk level"
FinalRisk(score, max_risk) ==
    IF score >= 80 THEN "critical"
    ELSE IF score >= 60 THEN "high"
    ELSE IF score >= 30 THEN "medium"
    ELSE IF max_risk # "low" THEN max_risk ELSE "low"

\* the score returned as accumulated
ClampScore_m(score) == score

\* validate: score=min(score, 100)
ClampScore(score) == Min(score, 100)

\* validate with the final level taken from half the accumulated score and
\* the matched severities left out
Validate_m(cmd, paths) ==
    LET text  == CommandText[cmd]
        rules == CheckPatterns(text, 1,
                   [warnings |-> <<>>, blocked_patterns |-> <<>>, max_risk |-> "low", score |-> 0])
        additional_warnings == HeuristicChecks(text, paths)
        score == rules.score + HeuristicScore(additional_warnings)
    IN  [ risk_level       |-> FinalRisk(score \div 2, "low"),
          score            |-> ClampScore(score),
          warnings         |-> rules.warnings \o additional_warnings,
          blocked_patterns |-> rules.blocked_patterns ]

\* SafetyValidator.validate, in a process that iterates system_paths in the order paths
Validate(cmd, paths) ==
    LET text  == CommandText[cmd]
        rules == CheckPatterns(text, 1,
                   [warnings |-> <<>>, blocked_patterns |-> <<>>, max_risk |-> "low", score |-> 0])
        additional_warnings == HeuristicChecks(text, paths)
        score == rules.score + HeuristicScore(additional_warnings)
    IN  [ risk_level       |-> FinalRisk(score, rules.max_risk),
          score            |-> ClampScore(score),
          warnings         |-> rules.warnings \o additional_warnings,
          blocked_patterns |-> rules.blocked_patterns ]

\* is_command_blocked without the test of the score
IsCommandBlocked_m(cmd, paths) ==
    LET a == Validate(cmd, paths)
    IN  a.risk_level = "critical"

\* SafetyValidator.is_command_blocked
IsCommandBlocked(cmd, paths) ==
    LET a == Validate(cmd, paths)
    IN  a.risk_level = "critical" /\ a.score >= 90

\* validate and is_command_blocked depend on the text and on the process's
\* iteration order only: both tabulated once over the corpus
Assessments ==
    [paths \in SystemPathOrders |-> [c \in Corpus |-> Validate(c, paths)]]

Blocked ==
    [paths \in SystemPathOrders |-> [c \in Corpus |-> IsCommandBlocked(c, paths)]]

(***************************************************************************)
(* core/context.py                                                         *)
(***************************************************************************)
\* ContextManager.__init__(max_history=50)
max_history == 50

\* ContextManager.add_interaction (add_to_history is its alias)
AddInteraction(h, q, c, executed) ==
    LET appended == Append(h, [query |-> q, command |-> c, executed |-> executed])
    IN  IF Len(appended) > max_history
        THEN SubSeq(appended, Len(appended) - max_history + 1, Len(appended))
        ELSE appended

(***************************************************************************)
(* storage/command_store.py                                                *)
(***************************************************************************)
\* the unit of datetime('now', '-N days'), in seconds
SecondsPerDay == 86400

\* a row whose id is the largest id now in the table plus one, as a plain
\* INTEGER PRIMARY KEY without AUTOINCREMENT assigns it
StoredRow_m(seq, ts, c, q, explanation, risk_level, executed, success, output) ==
    [ id |-> IF store = <<>> THEN 1 ELSE store[Len(store)].id + 1,
      command |-> c, query |-> q, explanation |-> explanation,
      risk_level |-> risk_level, timestamp |-> ts, executed |-> executed,
      success |-> success, output |-> output ]

\* CommandStore.store_command: the row inserted, with the id AUTOINCREMENT gives
\* it and the timestamp DEFAULT CURRENT_TIMESTAMP gives it
StoredRow(seq, ts, c, q, explanation, risk_level, executed, success, output) ==
    [ id |-> seq + 1, command |-> c, query |-> q, explanation |-> explanation,
      risk_level |-> risk_level, timestamp |-> ts, executed |-> executed,
      success |-> success, output |-> output ]

\* the arguments of one store_command call
NoInput == [ command |-> None, query |-> None, explanation |-> None, risk_level |-> None,
             executed |-> FALSE, success |-> FALSE, output |-> None ]

\* no CommandStore method called yet; a call fills in the fields it uses:
\* days is <<>> for None and <<n>> for the integer n; raised is None when the
\* call returned
NoCall == [ op |-> None, id |-> 0, input |-> NoInput, limit |-> 0, days |-> <<>>,
            rows |-> <<>>, raised |-> None ]

\* CommandStore.store_command
StoreCommand(in) ==
    LET row == StoredRow(sqlite_sequence, now, in.command, in.query, in.explanation,
                         in.risk_level, in.executed, in.success, in.output)
    IN  /\ store' = Append(store, row)
        /\ sqlite_sequence' = row.id
        /\ issued' = Append(issued, row.id)
        /\ last_call' = [NoCall EXCEPT !.op = "store_command", !.id = row.id, !.input = in]

(***************************************************************************)
(* main.py: ask                                                            *)
(***************************************************************************)
NoResult == [command |-> None, explanation |-> None, risk_level |-> None, confidence |-> 0,
             alternatives |-> <<>>, warnings |-> <<>>]
NoAssessment == [risk_level |-> None, score |-> 0, warnings |-> <<>>, blocked_patterns |-> <<>>]

Queries == {"list files", "clean up"}
Explanations == {"", "explained"}

\* what the adapter says of its own command: risk_level, confidence (in
\* hundredths), alternatives and warnings
AdapterOpinions ==
    { [risk_level |-> "low", confidence |-> 95, alternatives |-> <<>>, warnings |-> <<>>],
      [risk_level |-> "critical", confidence |-> 50, alternatives |-> << "ls" >>,
       warnings |-> << "Mock provider in use" >>] }

\* intent_parser.parse's result for a command, an explanation and an opinion
ParseResult(c, e, o) ==
    [ command |-> c, explanation |-> e, risk_level |-> o.risk_level,
      confidence |-> o.confidence, alternatives |-> o.alternatives, warnings |-> o.warnings ]

\* what intent_parser.parse may return: a ParseResult, or None
ParseResults ==
    {ParseResult(c, e, o) : c \in Corpus, e \in Explanations, o \in AdapterOpinions}

(***************************************************************************)
(* The adapter and the parser: what the configured provider answers, what  *)
(* LLMService and IntentParser.parse make of it.  A response is the text   *)
(* the provider returned; json.loads is tabulated over the responses.      *)
(***************************************************************************)

\* the queries of the requests that go through the parser
ParseQueries == Queries \cup {"Free DISK space"}

QueryText ==
       ("list files" :> <<"l", "i", "s", "t", " ", "f", "i", "l", "e", "s">>)
    @@ ("clean up" :> <<"c", "l", "e", "a", "n", " ", "u", "p">>)
    @@ ("Free DISK space" :> <<"F", "r", "e", "e", " ", "D", "I", "S", "K", " ", "s", "p", "a",
            "c", "e">>)

\* parse: f"Convert this request to a shell command: {query}"
UserMessage(q) ==
    <<"C", "o", "n", "v", "e", "r", "t", " ", "t", "h", "i", "s", " ", "r",
      "e", "q", "u", "e", "s", "t", " ", "t", "o", " ", "a", " ", "s", "h", "e", "l", "l", " ",
      "c", "o", "m", "m", "a", "n", "d", ":", " ">> \o QueryText[q]

\* str.lower()
LowerText(text) == [i \in DOMAIN text |-> Lower(text[i])]

\* the three answers of MockLLMProvider, as json.dumps writes them
MockListFiles ==
    "{\"command\": \"ls -la\", \"explanation\": \"List all files and directories with detailed information\", \"risk_level\": \"low\", \"confidence\": 0.95, \"alternatives\": [\"ls\", \"ls -l\"], \"warnings\": []}"
MockDiskSpace ==
    "{\"command\": \"df -h\", \"explanation\": \"Show disk space usage in human-readable format\", \"risk_level\": \"low\", \"confidence\": 0.9, \"alternatives\": [\"du -sh\", \"df\"], \"warnings\": []}"
MockNotRecognized ==
    "{\"command\": \"echo 'Command not recognized'\", \"explanation\": \"This is a mock response\", \"risk_level\": \"low\", \"confidence\": 0.5, \"alternatives\": [], \"warnings\": [\"Mock provider in use\"]}"

\* the answers of a provider other than the mock: well-formed objects, an
\* object without the expected keys, plain text, comments only, nothing, and
\* JSON that is not an object
AdapterResponses ==
    { "{\"command\": \"ls -la\", \"explanation\": \"explained\", \"risk_level\": \"low\", \"confidence\": 0.95, \"alternatives\": [], \"warnings\": []}",
      "{\"command\": \"rm -rf /\", \"risk_level\": \"low\"}",
      "{\"command\": \"rm -rf /\", \"risk_level\": \"critical\", \"warnings\": [\"deletes everything\"]}",
      "{}",
      "ls -la",
      "# list files\n\n  ls -la  \n",
      "// note\nrm -rf /",
      "# nothing",
      "",
      "[\"ls -la\"]",
      "\"ls -la\"" }

MockResponses == {MockListFiles, MockDiskSpace, MockNotRecognized}
Responses == AdapterResponses \cup MockResponses

\* the characters of each response
ResponseText ==
       ("{\"command\": \"ls -la\", \"explanation\": \"explained\", \"risk_level\": \"low\", \"confidence\": 0.95, \"alternatives\": [], \"warnings\": []}" :>
          <<
            "{", "\"", "c", "o", "m", "m", "a", "n", "d", "\"", ":", " ", "\"", "l", "s", " ",
            "-", "l", "a", "\"", ",", " ", "\"", "e", "x", "p", "l", "a", "n", "a", "t", "i",
            "o", "n", "\"", ":", " ", "\"", "e", "x", "p", "l", "a", "i", "n", "e", "d", "\"",
            ",", " ", "\"", "r", "i", "s", "k", "_", "l", "e", "v", "e", "l", "\"", ":", " ",
            "\"", "l", "o", "w", "\"", ",", " ", "\"", "c", "o", "n", "f", "i", "d", "e", "n",
            "c", "e", "\"", ":", " ", "0", ".", "9", "5", ",", " ", "\"", "a", "l", "t", "e",
            "r", "n", "a", "t", "i", "v", "e", "s", "\"", ":", " ", "[", "]", ",", " ", "\"",
            "w", "a", "r", "n", "i", "n", "g", "s", "\"", ":", " ", "[", "]", "}">>)
    @@ ("{\"command\": \"rm -rf /\", \"risk_level\": \"low\"}" :>
          <<"{", "\"", "c",
            "o", "m", "m", "a", "n", "d", "\"", ":", " ", "\"", "r", "m", " ", "-", "r", "f",
            " ", "/", "\"", ",", " ", "\"", "r", "i", "s", "k", "_", "l", "e", "v", "e", "l",
            "\"", ":", " ", "\"", "l", "o", "w", "\"", "}">>)
    @@ ("{\"command\": \"rm -rf /\", \"risk_level\": \"critical\", \"warnings\": [\"deletes everything\"]}" :>
          <<
            "{", "\"", "c", "o", "m", "m", "a", "n", "d", "\"", ":", " ", "\"", "r", "m", " ",
            "-", "r", "f", " ", "/", "\"", ",", " ", "\"", "r", "i", "s", "k", "_", "l", "e",
            "v", "e", "l", "\"", ":", " ", "\"", "c", "r", "i", "t", "i", "c", "a", "l", "\"",
            ",", " ", "\"", "w", "a", "r", "n", "i", "n", "g", "s", "\"", ":", " ", "[", "\"",
            "d", "e", "l", "e", "t", "e", "s", " ", "e", "v", "e", "r", "y", "t", "h", "i",
            "n", "g", "\"", "]", "}">>)
    @@ ("{}" :>
          <<"{", "}">>)
    @@ ("ls -la" :>
          <<"l", "s", " ", "-", "l", "a">>)
    @@ ("# list files\n\n  ls -la  \n" :>
          <<"#", " ", "l", "i", "s", "t", " ", "f",
            "i", "l", "e", "s", "\n", "\n", " ", " ", "l", "s", " ", "-", "l", "a", " ", " ",
            "\n">>)
    @@ ("// note\nrm -rf /" :>
          <<"/", "/", " ", "n", "o", "t", "e", "\n", "r", "m",
            " ", "-", "r", "f", " ", "/">>)
    @@ ("# nothing" :>
          <<"#", " ", "n", "o", "t", "h", "i", "n", "g">>)
    @@ ("" :>
          <<>>)
    @@ ("[\"ls -la\"]" :>
          <<"[", "\"", "l", "s", " ", "-", "l", "a", "\"", "]">>)
    @@ ("\"ls -la\"" :>
          <<"\"", "l", "s", " ", "-", "l", "a", "\"">>)
    @@ (MockListFiles :>
          <<"{", "\"", "c", "o", "m", "m", "a", "n", "d", "\"", ":",
            " ", "\"", "l", "s", " ", "-", "l", "a", "\"", ",", " ", "\"", "e", "x", "p", "l",
            "a", "n", "a", "t", "i", "o", "n", "\"", ":", " ", "\"", "L", "i", "s", "t", " ",
            "a", "l", "l", " ", "f", "i", "l", "e", "s", " ", "a", "n", "d", " ", "d", "i",
            "r", "e", "c", "t", "o", "r", "i", "e", "s", " ", "w", "i", "t", "h", " ", "d",
            "e", "t", "a", "i", "l", "e", "d", " ", "i", "n", "f", "o", "r", "m", "a", "t",
            "i", "o", "n", "\"", ",", " ", "\"", "r", "i", "s", "k", "_", "l", "e", "v", "e",
            "l", "\"", ":", " ", "\"", "l", "o", "w", "\"", ",", " ", "\"", "c", "o", "n", "f",
            "i", "d", "e", "n", "c", "e", "\"", ":", " ", "0", ".", "9", "5", ",", " ", "\"",
            "a", "l", "t", "e", "r", "n", "a", "t", "i", "v", "e", "s", "\"", ":", " ", "[",
            "\"", "l", "s", "\"", ",", " ", "\"", "l", "s", " ", "-", "l", "\"", "]", ",", " ",
            "\"", "w", "a", "r", "n", "i", "n", "g", "s", "\"", ":", " ", "[", "]", "}">>)
    @@ (MockDiskSpace :>
          <<"{", "\"", "c", "o", "m", "m", "a", "n", "d", "\"", ":",
            " ", "\"", "d", "f", " ", "-", "h", "\"", ",", " ", "\"", "e", "x", "p", "l", "a",
            "n", "a", "t", "i", "o", "n", "\"", ":", " ", "\"", "S", "h", "o", "w", " ", "d",
            "i", "s", "k", " ", "s", "p", "a", "c", "e", " ", "u", "s", "a", "g", "e", " ",
            "i", "n", " ", "h", "u", "m", "a", "n", "-", "r", "e", "a", "d", "a", "b", "l",
            "e", " ", "f", "o", "r", "m", "a", "t", "\"", ",", " ", "\"", "r", "i", "s", "k",
            "_", "l", "e", "v", "e", "l", "\"", ":", " ", "\"", "l", "o", "w", "\"", ",", " ",
            "\"", "c", "o", "n", "f", "i", "d", "e", "n", "c", "e", "\"", ":", " ", "0", ".",
            "9", ",", " ", "\"", "a", "l", "t", "e", "r", "n", "a", "t", "i", "v", "e", "s",
            "\"", ":", " ", "[", "\"", "d", "u", " ", "-", "s", "h", "\"", ",", " ", "\"", "d",
            "f", "\"", "]", ",", " ", "\"", "w", "a", "r", "n", "i", "n", "g", "s", "\"", ":",
            " ", "[", "]", "}">>)
    @@ (MockNotRecognized :>
          <<"{", "\"", "c", "o", "m", "m", "a", "n", "d", "\"",
            ":", " ", "\"", "e", "c", "h", "o", " ", "'", "C", "o", "m", "m", "a", "n", "d",
            " ", "n", "o", "t", " ", "r", "e", "c", "o", "g", "n", "i", "z", "e", "d", "'",
            "\"", ",", " ", "\"", "e", "x", "p", "l", "a", "n", "a", "t", "i", "o", "n", "\"",
            ":", " ", "\"", "T", "h", "i", "s", " ", "i", "s", " ", "a", " ", "m", "o", "c",
            "k", " ", "r", "e", "s", "p", "o", "n", "s", "e", "\"", ",", " ", "\"", "r", "i",
            "s", "k", "_", "l", "e", "v", "e", "l", "\"", ":", " ", "\"", "l", "o", "w", "\"",
            ",", " ", "\"", "c", "o", "n", "f", "i", "d", "e", "n", "c", "e", "\"", ":", " ",
            "0", ".", "5", ",", " ", "\"", "a", "l", "t", "e", "r", "n", "a", "t", "i", "v",
            "e", "s", "\"", ":", " ", "[", "]", ",", " ", "\"", "w", "a", "r", "n", "i", "n",
            "g", "s", "\"", ":", " ", "[", "\"", "M", "o", "c", "k", " ", "p", "r", "o", "v",
            "i", "d", "e", "r", " ", "i", "n", " ", "u", "s", "e", "\"", "]", "}">>)

\* json.loads(response): kind is "object" for a dict, "value" for any other
\* JSON value, "error" for JSONDecodeError; each key of the object is <<>> when
\* absent and <<v>> when present; confidence is in hundredths
Decoded ==
       ("{\"command\": \"ls -la\", \"explanation\": \"explained\", \"risk_level\": \"low\", \"confidence\": 0.95, \"alternatives\": [], \"warnings\": []}" :>
          [ kind |-> "object", command |-> <<"ls -la">>,
            explanation |-> <<"explained">>,
            risk_level |-> <<"low">>, confidence |-> <<95>>,
            alternatives |-> <<<<>>>>, warnings |-> <<<<>>>> ])
    @@ ("{\"command\": \"rm -rf /\", \"risk_level\": \"low\"}" :>
          [ kind |-> "object", command |-> <<"rm -rf /">>,
            explanation |-> <<>>,
            risk_level |-> <<"low">>, confidence |-> <<>>,
            alternatives |-> <<>>, warnings |-> <<>> ])
    @@ ("{\"command\": \"rm -rf /\", \"risk_level\": \"critical\", \"warnings\": [\"deletes everything\"]}" :>
          [ kind |-> "object", command |-> <<"rm -rf /">>,
            explanation |-> <<>>,
            risk_level |-> <<"critical">>, confidence |-> <<>>,
            alternatives |-> <<>>, warnings |-> <<<<"deletes everything">>>> ])
    @@ ("{}" :>
          [ kind |-> "object", command |-> <<>>,
            explanation |-> <<>>,
            risk_level |-> <<>>, confidence |-> <<>>,
            alternatives |-> <<>>, warnings |-> <<>> ])
    @@ ("ls -la" :>
          [ kind |-> "error", command |-> <<>>,
            explanation |-> <<>>,
            risk_level |-> <<>>, confidence |-> <<>>,
            alternatives |-> <<>>, warnings |-> <<>> ])
    @@ ("# list files\n\n  ls -la  \n" :>
          [ kind |-> "error", command |-> <<>>,
            explanation |-> <<>>,
            risk_level |-> <<>>, confidence |-> <<>>,
            alternatives |-> <<>>, warnings |-> <<>> ])
    @@ ("// note\nrm -rf /" :>
          [ kind |-> "error", command |-> <<>>,
            explanation |-> <<>>,
            risk_level |-> <<>>, confidence |-> <<>>,
            alternatives |-> <<>>, warnings |-> <<>> ])
    @@ ("# nothing" :>
          [ kind |-> "error", command |-> <<>>,
            explanation |-> <<>>,
            risk_level |-> <<>>, confidence |-> <<>>,
            alternatives |-> <<>>, warnings |-> <<>> ])
    @@ ("" :>
          [ kind |-> "error", command |-> <<>>,
            explanation |-> <<>>,
            risk_level |-> <<>>, confidence |-> <<>>,
            alternatives |-> <<>>, warnings |-> <<>> ])
    @@ ("[\"ls -la\"]" :>
          [ kind |-> "value", command |-> <<>>,
            explanation |-> <<>>,
            risk_level |-> <<>>, confidence |-> <<>>,
            alternatives |-> <<>>, warnings |-> <<>> ])
    @@ ("\"ls -la\"" :>
          [ kind |-> "value", command |-> <<>>,
            explanation |-> <<>>,
            risk_level |-> <<>>, confidence |-> <<>>,
            alternatives |-> <<>>, warnings |-> <<>> ])
    @@ (MockListFiles :>
          [ kind |-> "object", command |-> <<"ls -la">>,
            explanation |-> <<"List all files and directories with detailed information">>,
            risk_level |-> <<"low">>, confidence |-> <<95>>,
            alternatives |-> <<<<"ls", "ls -l">>>>, warnings |-> <<<<>>>> ])
    @@ (MockDiskSpace :>
          [ kind |-> "object", command |-> <<"df -h">>,
            explanation |-> <<"Show disk space usage in human-readable format">>,
            risk_level |-> <<"low">>, confidence |-> <<90>>,
            alternatives |-> <<<<"du -sh", "df">>>>, warnings |-> <<<<>>>> ])
    @@ (MockNotRecognized :>
          [ kind |-> "object", command |-> <<"echo 'Command not recognized'">>,
            explanation |-> <<"This is a mock response">>,
            risk_level |-> <<"low">>, confidence |-> <<50>>,
            alternatives |-> <<<<>>>>, warnings |-> <<<<"Mock provider in use">>>> ])

\* _fallback_parse: f"Generated command for: {query}"
FallbackExplanation ==
       ("list files" :> "Generated command for: list files")
    @@ ("clean up" :> "Generated command for: clean up")
    @@ ("Free DISK space" :> "Generated command for: Free DISK space")

\* MockLLMProvider.generate_response
MockResponse(q) ==
    LET user_message == LowerText(UserMessage(q))
    IN  IF Contains(user_message, <<"l", "i", "s", "t">>)
        THEN MockListFiles
        ELSE IF /\ Contains(user_message, <<"d", "i", "s", "k">>)
                /\ Contains(user_message, <<"s", "p", "a", "c", "e">>)
        THEN MockDiskSpace
        ELSE MockNotRecognized

\* the provider raised instead of answering
ProviderError == "Exception"
Providers == {"openai", "local", "mock"}

NoResponse == [query |-> None, provider |-> None, raised |-> FALSE, error |-> FALSE, text |-> None]

\* generate_response without the fallback: the provider's exception goes on
\* to the caller
GenerateResponse_m(provider, outcome, q) ==
    IF outcome # ProviderError
    THEN [query |-> q, provider |-> provider, raised |-> FALSE, error |-> FALSE, text |-> outcome]
    ELSE [query |-> q, provider |-> provider, raised |-> TRUE, error |-> TRUE, text |-> None]

\* LLMService.generate_response: the provider's answer; when it raised, the
\* mock's answer unless the provider is the mock itself, and then the exception
GenerateResponse(provider, outcome, q) ==
    IF outcome # ProviderError
    THEN [query |-> q, provider |-> provider, raised |-> FALSE, error |-> FALSE, text |-> outcome]
    ELSE IF provider # "mock"
    THEN [query |-> q, provider |-> provider, raised |-> TRUE, error |-> FALSE,
          text |-> MockResponse(q)]
    ELSE [query |-> q, provider |-> provider, raised |-> TRUE, error |-> TRUE, text |-> None]

\* str.split('\n')
RECURSIVE Split(_)
Split(text) ==
    IF \A i \in DOMAIN text : text[i] # "\n" THEN << text >>
    ELSE LET at == CHOOSE i \in DOMAIN text : text[i] = "\n" /\ \A j \in 1 .. i - 1 : text[j] # "\n"
         IN  << SubSeq(text, 1, at - 1) >> \o Split(SubSeq(text, at + 1, Len(text)))

\* the string of the given characters
TextOf(text) == CHOOSE c \in Corpus : CommandText[c] = text

FallbackWarning == "Fallback parsing used - please verify command"

\* IntentParser._fallback_parse: the first line that, stripped, is not empty
\* and starts with neither # nor //
FallbackParse(text, q) ==
    LET lines == Split(Strip(text))
        line(i) == Strip(lines[i])
        commands == {i \in DOMAIN lines :
                        /\ line(i) # <<>>
                        /\ ~StartsWith(line(i), <<"#">>)
                        /\ ~StartsWith(line(i), <<"/", "/">>)}
    IN  IF commands = {} THEN NoResult
        ELSE [ command |-> TextOf(line(CHOOSE i \in commands : \A j \in commands : i <= j)),
               explanation |-> FallbackExplanation[q],
               risk_level |-> "medium", confidence |-> 60, alternatives |-> <<>>,
               warnings |-> << FallbackWarning >> ]

\* dict.get(key, default)
Get(field, default) == IF field = <<>> THEN default ELSE field[1]

\* IntentParser.parse, given what generate_response gave: a ParseResult from
\* the object, the fallback on JSONDecodeError, None on any other exception
\* (the one of generate_response, or .get on a JSON value that is not a dict)
Parse(resp) ==
    IF resp.error THEN NoResult
    ELSE LET result_data == Decoded[resp.text]
         IN  CASE result_data.kind = "object" ->
                    [ command      |-> Get(result_data.command, ""),
                      explanation  |-> Get(result_data.explanation, ""),
                      risk_level   |-> Get(result_data.risk_level, "medium"),
                      confidence   |-> Get(result_data.confidence, 80),
                      alternatives |-> Get(result_data.alternatives, <<>>),
                      warnings     |-> Get(result_data.warnings, <<>>) ]
               [] result_data.kind = "error" -> FallbackParse(ResponseText[resp.text], resp.query)
               [] result_data.kind = "value" -> NoResult

\* Confirm.ask returns True or False, or the user interrupts it
Answers == {"y", "n", "interrupt"}

\* how subprocess.run ends inside _execute_command
Outcomes == {"exit0", "nonzero", "timeout", "error", "interrupt"}

ExecutePrompt == "Execute this command?"
CriticalPrompt == "This is a CRITICAL risk command. Are you absolutely sure?"

\* the branches of the execution logic with execute tested before dry_run
FirstDecision_m(x, n) ==
    IF x THEN "execute" ELSE IF n THEN "skip" ELSE "ask"

\* ask: if dry_run ... elif execute or Confirm.ask("Execute this command?")
FirstDecision(x, n) ==
    IF n THEN "skip" ELSE IF x THEN "execute" ELSE "ask"

\* the final check comparing with the name of the enum member, not its value
NeedsFinalCheck_m(ra) == ra.risk_level = "CRITICAL"

\* ask: if risk_assessment.risk_level == "critical": Confirm.ask(...)
NeedsFinalCheck(ra) == ra.risk_level = "critical"

\* ask, once should_execute is True: the final check, or straight to _execute_command
Proceed(ra) ==
    /\ should_execute' = TRUE
    /\ IF NeedsFinalCheck(ra)
       THEN pc' = "Confirm2" /\ executions' = executions
       ELSE pc' = "Executing" /\ executions' = Append(executions, "running")

\* ask with the final check of an immediate execution decided on the adapter's
\* risk_level
Ask_m(q, x, n, r) ==
    /\ pc = "Idle"
    /\ query' = q /\ execute' = x /\ dry_run' = n /\ result' = r
    /\ IF r = NoResult
       THEN /\ pc' = "Exit1"
            /\ UNCHANGED <<risk_assessment, should_execute, executions, displayed, history>>
       ELSE LET ra == Assessments[system_paths][r.command]
            IN  /\ risk_assessment' = ra
                /\ displayed' = IF ra.risk_level \in {"high", "critical"} THEN ra.warnings ELSE <<>>
                /\ CASE FirstDecision(x, n) = "skip" ->
                          /\ pc' = "Done"
                          /\ history' = AddInteraction(history, q, r.command, FALSE)
                          /\ UNCHANGED <<should_execute, executions>>
                     [] FirstDecision(x, n) = "execute" ->
                          /\ Proceed([ra EXCEPT !.risk_level = r.risk_level])
                          /\ UNCHANGED history
                     [] FirstDecision(x, n) = "ask" ->
                          /\ pc' = "Confirm1"
                          /\ UNCHANGED <<should_execute, executions, history>>
    /\ UNCHANGED <<system_paths, prompts, store, sqlite_sequence, validator_vars, store_vars,
                   ops, request_vars>>

\* ask, from its call to the first point where it waits for the user or the command
Ask(q, x, n, r) ==
    /\ pc = "Idle"
    /\ query' = q /\ execute' = x /\ dry_run' = n /\ result' = r
    /\ IF r = NoResult
       THEN /\ pc' = "Exit1"
            /\ UNCHANGED <<risk_assessment, should_execute, executions, displayed, history>>
       ELSE LET ra == Assessments[system_paths][r.command]
            IN  /\ risk_assessment' = ra
                /\ displayed' = IF ra.risk_level \in {"high", "critical"} THEN ra.warnings ELSE <<>>
                /\ CASE FirstDecision(x, n) = "skip" ->
                          /\ pc' = "Done"
                          /\ history' = AddInteraction(history, q, r.command, FALSE)
                          /\ UNCHANGED <<should_execute, executions>>
                     [] FirstDecision(x, n) = "execute" ->
                          /\ Proceed(ra)
                          /\ UNCHANGED history
                     [] FirstDecision(x, n) = "ask" ->
                          /\ pc' = "Confirm1"
                          /\ UNCHANGED <<should_execute, executions, history>>
    /\ UNCHANGED <<system_paths, prompts, store, sqlite_sequence, validator_vars, store_vars,
                   ops, request_vars>>

\* the user answers Confirm.ask("Execute this command?")
AnswerExecute(a) ==
    /\ pc = "Confirm1"
    /\ prompts' = Append(prompts, [prompt |-> ExecutePrompt, answer |-> a])
    /\ CASE a = "y" ->
              /\ Proceed(risk_assessment)
              /\ UNCHANGED history
         [] a = "n" ->
              /\ pc' = "Done"
              /\ history' = AddInteraction(history, query, result.command, FALSE)
              /\ UNCHANGED <<should_execute, executions>>
         [] a = "interrupt" ->
              /\ pc' = "Aborted"
              /\ UNCHANGED <<should_execute, executions, history>>
    /\ UNCHANGED <<system_paths, query, execute, dry_run, result, risk_assessment,
                   displayed, store, sqlite_sequence, validator_vars, store_vars, ops, request_vars>>

\* the user answers the final check of a critical command
AnswerCritical(a) ==
    /\ pc = "Confirm2"
    /\ prompts' = Append(prompts, [prompt |-> CriticalPrompt, answer |-> a])
    /\ CASE a = "y" ->
              /\ pc' = "Executing"
              /\ executions' = Append(executions, "running")
         [] a = "n" ->
              /\ pc' = "Done"
              /\ UNCHANGED executions
         [] a = "interrupt" ->
              /\ pc' = "Aborted"
              /\ UNCHANGED executions
    /\ UNCHANGED <<system_paths, query, execute, dry_run, result, risk_assessment,
                   should_execute, displayed, history, store, sqlite_sequence, validator_vars,
                   store_vars, ops, request_vars>>

\* a record of the attempt written however _execute_command ends, marked executed
CommandsStored_m(o) ==
    << [ command |-> result.command, query |-> query, explanation |-> result.explanation,
         risk_level |-> risk_assessment.risk_level, executed |-> TRUE,
         success |-> (o = "exit0"), output |-> "" ] >>

\* ask: if success: command_store.store_command(command, query, explanation, risk_level);
\* the store_command calls made when _execute_command ends with o
CommandsStored(o) ==
    IF o = "exit0"
    THEN << [ command |-> result.command, query |-> query, explanation |-> result.explanation,
              risk_level |-> risk_assessment.risk_level, executed |-> FALSE,
              success |-> FALSE, output |-> "" ] >>
    ELSE <<>>

\* a gate that starts the command again when it timed out
ExecuteCommandEnds_m(o) ==
    /\ pc = "Executing"
    /\ IF CommandsStored(o) = <<>>
       THEN UNCHANGED <<store, sqlite_sequence, issued, last_call>>
       ELSE StoreCommand(CommandsStored(o)[1])
    /\ CASE o = "exit0" ->
              /\ pc' = "Done"
              /\ executions' = [executions EXCEPT ![Len(executions)] = o]
              /\ history' = AddInteraction(AddInteraction(history, query, result.command, FALSE),
                                           query, result.command, should_execute)
         [] o \in {"nonzero", "error"} ->
              /\ pc' = "Done"
              /\ executions' = [executions EXCEPT ![Len(executions)] = o]
              /\ history' = AddInteraction(history, query, result.command, should_execute)
         [] o = "timeout" ->
              /\ pc' = "Executing"
              /\ executions' = Append([executions EXCEPT ![Len(executions)] = o], "running")
              /\ UNCHANGED history
         [] o = "interrupt" ->
              /\ pc' = "Aborted"
              /\ executions' = [executions EXCEPT ![Len(executions)] = o]
              /\ UNCHANGED history
    /\ UNCHANGED <<system_paths, query, execute, dry_run, result, risk_assessment,
                   should_execute, prompts, displayed, validator_vars, now, ticks, ops, request_vars>>

\* _execute_command returns (or is interrupted), and ask runs to its end
ExecuteCommandEnds(o) ==
    /\ pc = "Executing"
    /\ executions' = [executions EXCEPT ![Len(executions)] = o]
    /\ IF CommandsStored(o) = <<>>
       THEN UNCHANGED <<store, sqlite_sequence, issued, last_call>>
       ELSE StoreCommand(CommandsStored(o)[1])
    /\ CASE o = "exit0" ->
              /\ pc' = "Done"
              /\ history' = AddInteraction(AddInteraction(history, query, result.command, FALSE),
                                           query, result.command, should_execute)
         [] o \in {"nonzero", "timeout", "error"} ->
              /\ pc' = "Done"
              /\ history' = AddInteraction(history, query, result.command, should_execute)
         [] o = "interrupt" ->
              /\ pc' = "Aborted"
              /\ UNCHANGED history
    /\ UNCHANGED <<system_paths, query, execute, dry_run, result, risk_assessment,
                   should_execute, prompts, displayed, validator_vars, now, ticks, ops, request_vars>>

GateIdle ==
    /\ pc = "Idle" /\ query = None /\ execute = FALSE /\ dry_run = FALSE
    /\ result = NoResult /\ risk_assessment = NoAssessment /\ should_execute = FALSE
    /\ prompts = <<>> /\ executions = <<>> /\ displayed = <<>>
    /\ history = <<>> /\ store = <<>> /\ sqlite_sequence = 0

ValidatorIdle ==
    /\ command = None /\ assessment = NoAssessment /\ blocked = FALSE
    /\ prev_command = None /\ prev_assessment = NoAssessment

StoreIdle ==
    /\ now = 0 /\ ticks = 0 /\ issued = <<>> /\ last_call = NoCall

\* no earlier request
NoRequest ==
    [ pc |-> None, query |-> None, execute |-> FALSE, dry_run |-> FALSE, result |-> NoResult,
      risk_assessment |-> NoAssessment, prompts |-> <<>>, executions |-> <<>>, store |-> <<>> ]

\* no request under way, none made before
RequestIdle == response = NoResponse /\ previous = NoRequest

ContextIdle == ops = 0

\* one run of `rllm ask`: a fresh process, an empty session history, an empty store
Init ==
    /\ system_paths \in SystemPathOrders
    /\ GateIdle
    /\ ValidatorIdle
    /\ StoreIdle
    /\ ContextIdle
    /\ RequestIdle

Next ==
    \/ \E q \in Queries, x \in BOOLEAN, n \in BOOLEAN, r \in ParseResults \cup {NoResult} :
          Ask(q, x, n, r)
    \/ \E a \in Answers : AnswerExecute(a)
    \/ \E a \in Answers : AnswerCritical(a)
    \/ \E o \in Outcomes : ExecuteCommandEnds(o)

Spec == Init /\ [][Next]_vars

(***************************************************************************)
(* Validator harness: processes that assess command texts                  *)
(***************************************************************************)
InitValidate ==
    /\ system_paths \in SystemPathOrders
    /\ GateIdle
    /\ ValidatorIdle
    /\ StoreIdle
    /\ ContextIdle
    /\ RequestIdle

\* safety_validator.validate(c) and safety_validator.is_command_blocked(c)
ValidateCommand(c) ==
    /\ prev_command' = command
    /\ prev_assessment' = assessment
    /\ command' = c
    /\ assessment' = Assessments[system_paths][c]
    /\ blocked' = Blocked[system_paths][c]
    /\ UNCHANGED <<system_paths, gate_vars, store_vars, ops, request_vars>>

\* the program is started again: SafetyValidator.__init__ builds system_paths anew
NewProcess ==
    /\ system_paths' \in SystemPathOrders
    /\ UNCHANGED <<command, assessment, blocked, prev_command, prev_assessment, gate_vars,
                   store_vars, ops, request_vars>>

NextValidate ==
    \/ \E c \in Corpus : ValidateCommand(c)
    \/ NewProcess

SpecValidate == InitValidate /\ [][NextValidate]_vars

(***************************************************************************)
(* The command store on its own: the methods of CommandStore called in any *)
(* order on one database, with the clock moving between calls.             *)
(***************************************************************************)

\* most ids one database hands out, and most clock advances, in a run
MaxIds == 2
MaxTicks == 2

\* the arguments store_command is called with
StoreInputs ==
    { [ command |-> "ls -la", query |-> "list files", explanation |-> "explained",
        risk_level |-> "low", executed |-> TRUE, success |-> TRUE, output |-> "out" ],
      [ command |-> "rm -rf /", query |-> "clean up", explanation |-> "",
        risk_level |-> "", executed |-> FALSE, success |-> FALSE, output |-> "" ] }

\* the ids update_command_result is called with: each is missing from the
\* table before it is handed out and after its row is deleted
UpdateIds == 1 .. MaxIds
Outputs == {"out"}
Limits == {1, 2}
\* older_than_days: Optional[int], <<>> for None
DaysArguments == { <<>>, <<0>>, <<1>> }
\* the clock moves a day at a time
ClockSteps == {SecondsPerDay}

store_frame == <<system_paths, ask_vars, history, validator_vars, ops, request_vars>>

\* store_command, called from outside ask
CallStoreCommand(in) ==
    /\ sqlite_sequence < MaxIds
    /\ StoreCommand(in)
    /\ UNCHANGED <<store_frame, now, ticks>>

\* the UPDATE without its WHERE clause
UpdateCommandResult_m(id, success, output) ==
    /\ store' = [ i \in DOMAIN store |->
                    [store[i] EXCEPT !.executed = TRUE, !.success = success,
                                     !.output = output] ]
    /\ last_call' = [NoCall EXCEPT !.op = "update_command_result", !.id = id]
    /\ UNCHANGED <<store_frame, sqlite_sequence, now, ticks, issued>>

\* CommandStore.update_command_result: UPDATE ... WHERE id = ?, which changes
\* no row and raises nothing when no row has the id
UpdateCommandResult(id, success, output) ==
    /\ store' = [ i \in DOMAIN store |->
                    IF store[i].id = id
                    THEN [store[i] EXCEPT !.executed = TRUE, !.success = success,
                                          !.output = output]
                    ELSE store[i] ]
    /\ last_call' = [NoCall EXCEPT !.op = "update_command_result", !.id = id]
    /\ UNCHANGED <<store_frame, sqlite_sequence, now, ticks, issued>>

\* ORDER BY timestamp DESC, read off idx_commands_timestamp backwards: rows of
\* one timestamp come out by descending rowid
RECURSIVE ByTimestampDesc(_)
ByTimestampDesc(rows) ==
    IF rows = {} THEN <<>>
    ELSE LET first == CHOOSE r \in rows :
                         \A s \in rows : \/ s.timestamp < r.timestamp
                                         \/ s.timestamp = r.timestamp /\ s.id <= r.id
         IN  << first >> \o ByTimestampDesc(rows \ {first})

\* LIMIT ?
Limit(rows, n) == SubSeq(rows, 1, Min(n, Len(rows)))

\* get_history: the StoredCommand built from a row, with `or` replacing an
\* empty explanation, risk_level and output
StoredCommand(row) ==
    [ row EXCEPT !.explanation = IF @ = "" THEN "" ELSE @,
                 !.risk_level = IF @ = "" THEN "low" ELSE @,
                 !.output = IF @ = "" THEN "" ELSE @ ]

\* CommandStore.get_history(limit), search left at None
GetHistory(limit) ==
    LET rows == Limit(ByTimestampDesc(Range(store)), limit)
    IN  /\ last_call' = [NoCall EXCEPT !.op = "get_history", !.limit = limit,
                                       !.rows = [ i \in DOMAIN rows |-> StoredCommand(rows[i]) ]]
        /\ UNCHANGED <<store_frame, store, sqlite_sequence, now, ticks, issued>>

\* timestamp < datetime('now', '-N days')
OlderThan(row, n) == row.timestamp < now - n * SecondsPerDay

\* CommandStore.clear_history: `if older_than_days:` takes None and 0 alike to
\* DELETE FROM commands; sqlite_sequence keeps the last id handed out
ClearHistory(days) ==
    LET Kept(row) == ~OlderThan(row, days[1])
    IN  /\ store' = IF days # <<>> /\ days[1] # 0 THEN SelectSeq(store, Kept) ELSE <<>>
        /\ last_call' = [NoCall EXCEPT !.op = "clear_history", !.days = days]
        /\ UNCHANGED <<store_frame, sqlite_sequence, now, ticks, issued>>

\* the clear-history command of the command line: asks unless --yes was given,
\* and a declined question leaves the store alone
ClearHistoryCommand(days, confirm, answer) ==
    IF ~confirm /\ answer = "n"
    THEN /\ last_call' = [NoCall EXCEPT !.op = "cancelled"]
         /\ UNCHANGED <<store_frame, store, sqlite_sequence, now, ticks, issued>>
    ELSE ClearHistory(days)

\* time passes
Tick(d) ==
    /\ ticks < MaxTicks
    /\ now' = now + d
    /\ ticks' = ticks + 1
    /\ UNCHANGED <<store_frame, store, sqlite_sequence, issued, last_call>>

NextStore ==
    \/ \E in \in StoreInputs : CallStoreCommand(in)
    \/ \E id \in UpdateIds, success \in BOOLEAN, output \in Outputs :
          UpdateCommandResult(id, success, output)
    \/ \E limit \in Limits : GetHistory(limit)
    \/ \E days \in DaysArguments : ClearHistory(days)
    \/ \E days \in DaysArguments, confirm \in BOOLEAN, answer \in {"y", "n"} :
          ClearHistoryCommand(days, confirm, answer)
    \/ \E d \in ClockSteps : Tick(d)

\* the callers of the store alone construct no SafetyValidator
InitStore ==
    /\ system_paths = <<>>
    /\ GateIdle
    /\ ValidatorIdle
    /\ StoreIdle
    /\ ContextIdle
    /\ RequestIdle

SpecStore == InitStore /\ [][NextStore]_vars

(***************************************************************************)
(* The session context on its own: the methods of ContextManager that      *)
(* write the history, called in any order on one manager.                  *)
(***************************************************************************)

\* most ContextManager calls in a run
MaxOps == 4

\* the i-th item of a saved session
SessionItem(i) ==
    [ query |-> IF i % 3 = 0 THEN "clean up" ELSE "list files",
      command |-> "ls -la", executed |-> (i % 2 = 0) ]

SessionHistory(n) == [ i \in 1 .. n |-> SessionItem(i) ]

\* the session_data given to import_session: without a 'history' key, and with
\* a history of no item, one item, max_history items and one more than that
Sessions ==
    { [ has_history |-> FALSE, history |-> <<>> ] } \cup
    { [ has_history |-> TRUE, history |-> SessionHistory(n) ] :
        n \in {0, 1, max_history, max_history + 1} }

context_frame == <<system_paths, ask_vars, store, sqlite_sequence, validator_vars, store_vars,
                   request_vars>>

\* ContextManager.add_interaction, called directly or through add_to_history
AddInteractionCall(q, c, executed) ==
    /\ ops < MaxOps
    /\ history' = AddInteraction(history, q, c, executed)
    /\ ops' = ops + 1
    /\ UNCHANGED context_frame

\* ContextManager.clear_history
ClearSessionHistory ==
    /\ ops < MaxOps
    /\ history' = <<>>
    /\ ops' = ops + 1
    /\ UNCHANGED context_frame

\* ContextManager.import_session: the history becomes the imported list, whole
ImportSession(session_data) ==
    /\ ops < MaxOps
    /\ history' = IF session_data.has_history THEN session_data.history ELSE history
    /\ ops' = ops + 1
    /\ UNCHANGED context_frame

NextContext ==
    \/ \E q \in Queries, executed \in BOOLEAN : AddInteractionCall(q, "ls -la", executed)
    \/ ClearSessionHistory
    \/ \E session_data \in Sessions : ImportSession(session_data)

SpecContext == InitStore /\ [][NextContext]_vars

(***************************************************************************)
(* One request from the provider's answer on: generate_response, parse,    *)
(* and the gate.                                                           *)
(***************************************************************************)

\* what the configured provider can do with a request: the mock gives its
\* answer for the query, any other provider gives some answer or raises
ProviderOutcomes(provider, q) ==
    IF provider = "mock" THEN {MockResponse(q)} ELSE AdapterResponses \cup {ProviderError}

\* parse awaits llm_service.generate_response(messages)
AwaitResponse(q, provider, outcome) ==
    /\ pc = "Idle"
    /\ response = NoResponse
    /\ response' = GenerateResponse(provider, outcome, q)
    /\ UNCHANGED <<system_paths, gate_vars, validator_vars, store_vars, ops, previous>>

\* parse returns and ask goes on with its result
AskParsed(x, n) ==
    /\ response # NoResponse
    /\ Ask(response.query, x, n, Parse(response))

NextParse ==
    \/ \E q \in ParseQueries, provider \in Providers :
          \E outcome \in ProviderOutcomes(provider, q) : AwaitResponse(q, provider, outcome)
    \/ \E x, n \in BOOLEAN : AskParsed(x, n)
    \/ \E a \in Answers : AnswerExecute(a)
    \/ \E a \in Answers : AnswerCritical(a)
    \/ \E o \in Outcomes : ExecuteCommandEnds(o)

SpecParse == Init /\ [][NextParse]_vars

(***************************************************************************)
(* Two requests, one after the other in two runs of the program, for which *)
(* the parser gives the same command and explanation and the adapter       *)
(* another opinion.                                                        *)
(***************************************************************************)

\* commands assessed low, high and critical
TwinCommands == {"ls -la", "chmod 777 f", "rm -rf /"}

\* the first request
FirstAsk(x, n, c, o) ==
    /\ previous = NoRequest
    /\ Ask("list files", x, n, ParseResult(c, "explained", o))

\* the program has ended and is started again: the globals of main.py are
\* built anew, the database file is the same
RunAgain ==
    /\ pc \in {"Done", "Aborted"}
    /\ previous = NoRequest
    /\ previous' = [ pc |-> pc, query |-> query, execute |-> execute, dry_run |-> dry_run,
                     result |-> result, risk_assessment |-> risk_assessment,
                     prompts |-> prompts, executions |-> executions, store |-> store ]
    /\ system_paths' \in SystemPathOrders
    /\ pc' = "Idle" /\ query' = None /\ execute' = FALSE /\ dry_run' = FALSE
    /\ result' = NoResult /\ risk_assessment' = NoAssessment /\ should_execute' = FALSE
    /\ prompts' = <<>> /\ executions' = <<>> /\ displayed' = <<>> /\ history' = <<>>
    /\ UNCHANGED <<store, sqlite_sequence, validator_vars, store_vars, ops, response>>

\* the second request: same query, flags, command and explanation
AskAgain(o) ==
    /\ previous # NoRequest
    /\ Ask(previous.query, previous.execute, previous.dry_run,
           ParseResult(previous.result.command, previous.result.explanation, o))

NextTwin ==
    \/ \E x, n \in BOOLEAN, c \in TwinCommands, o \in AdapterOpinions : FirstAsk(x, n, c, o)
    \/ RunAgain
    \/ \E o \in AdapterOpinions : AskAgain(o)
    \/ \E a \in Answers : AnswerExecute(a)
    \/ \E a \in Answers : AnswerCritical(a)
    \/ \E o \in Outcomes : ExecuteCommandEnds(o)

SpecTwin == Init /\ [][NextTwin]_vars
(***************************************************************************)
(* Properties                                                              *)
(***************************************************************************)
\* the request reached Executed: _execute_command was called for its command
Executed == executions # <<>>

Granted(p) == \E i \in DOMAIN prompts : prompts[i] = [prompt |-> p, answer |-> "y"]

\* the rules of the table whose pattern an assessment reports as matched
MatchedRules(a) ==
    {k \in DOMAIN DangerousPatterns :
        \E i \in DOMAIN a.blocked_patterns : a.blocked_patterns[i] = DangerousPatterns[k].pattern}

\* the weights of the four severities
Weight == ("low" :> 1) @@ ("medium" :> 3) @@ ("high" :> 7) @@ ("critical" :> 10)

RECURSIVE SumWeights(_)
SumWeights(R) ==
    IF R = {} THEN 0
    ELSE LET k == CHOOSE k \in R : TRUE
         IN  Weight[DangerousPatterns[k].risk] * 10 + SumWeights(R \ {k})

\* the highest severity among a non-empty set of rules
MaxSeverity(R) ==
    LET k == CHOOSE k \in R : \A j \in R : Weight[DangerousPatterns[j].risk] <= Weight[DangerousPatterns[k].risk]
    IN  DangerousPatterns[k].risk

\* the six checks of the heuristic scanner that fire on a text, by number
Fires(n, text) ==
    CASE n = 1 -> \E op \in {<<";">>, <<"&", "&">>, <<"|", "|">>} : Contains(text, op)
      [] n = 2 -> ReSearch(Lit(<<">">>) \o SpaceStar \o Lit(<<"/">>) \o WordPlus, text, FALSE)
      [] n = 3 -> Contains(text, <<"*">>) /\ \E v \in DestructiveCommands : Contains(text, v)
      [] n = 4 -> StartsWith(Strip(text), <<"s", "u", "d", "o">>)
      [] n = 5 -> \E sp \in SystemPaths : Contains(text, SystemPathText[sp])
      [] n = 6 -> \E m \in Range(SuspiciousChars) : Contains(text, m)

FiredOn(text) == {n \in 1..6 : Fires(n, text)}

FiredChecks == [c \in Corpus |-> FiredOn(CommandText[c])]

\* the warnings of an assessment that come from the heuristic scanner
HeuristicWarnings(a) == SubSeq(a.warnings, Len(a.blocked_patterns) + 1, Len(a.warnings))

\* the score accumulated for a text before it is clamped
Accumulated(c, a) == SumWeights(MatchedRules(a)) + 5 * Cardinality(FiredChecks[c])

\* C1: with execute=True and dry_run=False, a command that is_command_blocked
\* holds of (Critical, score >= 90) never reaches Executed
C1_BlockedNeverExecuted ==
    (execute /\ ~dry_run /\ result # NoResult /\ Blocked[system_paths][result.command])
        => ~Executed

\* C2: a command assessed High or Critical reaches Executed only after at least
\* one confirmation prompt was granted for it
C2_HighRiskNeedsConfirmation ==
    (Executed /\ risk_assessment.risk_level \in {"high", "critical"})
        => \E i \in DOMAIN prompts : prompts[i].answer = "y"

\* C3: with execute=False and dry_run=False a Critical command reaches Executed
\* if and only if "Execute this command?" and then the "absolutely sure" check
\* were both granted
C3_CriticalNeedsBothConfirmations ==
    (~execute /\ ~dry_run /\ risk_assessment.risk_level = "critical")
        => (Executed <=> prompts = << [prompt |-> ExecutePrompt, answer |-> "y"],
                                      [prompt |-> CriticalPrompt, answer |-> "y"] >>)

C3_Witness ==
    /\ ~execute /\ ~dry_run /\ risk_assessment.risk_level = "critical"
    /\ Executed /\ Granted(ExecutePrompt) /\ Granted(CriticalPrompt)

\* C4: with dry_run=True a generated command ends Skipped: ask has returned, the
\* command was not run, no prompt was asked, and the assessment was computed
C4_DryRunSkips ==
    (dry_run /\ result # NoResult)
        => /\ pc = "Done"
           /\ ~Executed /\ ~should_execute
           /\ prompts = <<>>
           /\ risk_assessment # NoAssessment
           /\ risk_assessment = Validate(result.command, system_paths)

C4_Witness ==
    /\ dry_run /\ execute /\ pc = "Done"
    /\ risk_assessment.risk_level = "critical" /\ risk_assessment.score >= 90

\* C5: is_command_blocked is true exactly when validate gives Critical with a
\* score of at least 90, so never for a Critical command scored 80..89
C5_BlockedIffCritical90 ==
    command # None
        => /\ blocked <=> (assessment.risk_level = "critical" /\ assessment.score >= 90)
           /\ (assessment.risk_level = "critical" /\ assessment.score \in 80..89) => ~blocked

C5_Witness ==
    /\ command # None /\ ~blocked
    /\ assessment.risk_level = "critical" /\ assessment.score \in 80..89

\* C6: the final level follows the accumulated score by the thresholds 80, 60,
\* 30, below them the highest matched severity, else Low; nothing matched gives
\* score 0 and Low; three Medium matches give Critical
C6_LevelFromThresholds ==
    command # None
        => LET R   == MatchedRules(assessment)
               acc == Accumulated(command, assessment)
           IN  /\ assessment.risk_level =
                     IF acc >= 80 THEN "critical"
                     ELSE IF acc >= 60 THEN "high"
                     ELSE IF acc >= 30 THEN "medium"
                     ELSE IF R # {} THEN MaxSeverity(R)
                     ELSE "low"
               /\ (R = {} /\ FiredChecks[command] = {})
                     => (assessment.score = 0 /\ assessment.risk_level = "low")
               /\ Cardinality({k \in R : DangerousPatterns[k].risk = "medium"}) >= 3
                     => assessment.risk_level = "critical"
               /\ FinalRisk(3 * (RiskLevelScore("medium") * 10), "medium") = "critical"

C6_Witness ==
    /\ command # None
    /\ Cardinality({k \in MatchedRules(assessment) : DangerousPatterns[k].risk = "medium"}) = 3
    /\ \A k \in MatchedRules(assessment) : DangerousPatterns[k].risk # "critical"
    /\ assessment.risk_level = "critical"

\* C7: the score is min(100, sum of weight * 10 over the matched rules + 5 per
\* fired heuristic), every fired heuristic adds exactly one warning, and the
\* score is an integer in 0..100
C7_ScoreFormula ==
    command # None
        => /\ assessment.score = Min(100, Accumulated(command, assessment))
           /\ Len(HeuristicWarnings(assessment)) = Cardinality(FiredChecks[command])
           /\ assessment.score \in 0..100

C7_Witness ==
    /\ command # None
    /\ Accumulated(command, assessment) > 100
    /\ FiredChecks[command] # {}
    /\ assessment.score = 100

\* C8: a text that matches at least the rules and fires at least the heuristics
\* of another text scores at least as much
C8_ScoreMonotone ==
    ( /\ command # None /\ prev_command # None
      /\ MatchedRules(prev_assessment) \subseteq MatchedRules(assessment)
      /\ FiredChecks[prev_command] \subseteq FiredChecks[command] )
        => prev_assessment.score <= assessment.score

C8_Witness ==
    /\ command # None /\ prev_command # None
    /\ MatchedRules(prev_assessment) \subseteq MatchedRules(assessment)
    /\ FiredChecks[prev_command] \subseteq FiredChecks[command]
    /\ FiredChecks[prev_command] # FiredChecks[command]
    /\ MatchedRules(prev_assessment) # {}
    /\ prev_assessment.score < assessment.score

\* C9: assessing the same text again, in this or another run of the program,
\* gives the identical assessment
C9_Deterministic ==
    (command # None /\ prev_command = command) => prev_assessment = assessment

\* C10: validate("rm -rf /") is Critical with a score of at least 80 and warns
\* "Recursive deletion from root directory"
C10_RmRfRoot ==
    command = "rm -rf /"
        => /\ assessment.risk_level = "critical"
           /\ assessment.score >= 80
           /\ \E i \in DOMAIN assessment.warnings :
                 assessment.warnings[i] = "Recursive deletion from root directory"

C10_Witness ==
    /\ command = "rm -rf /"
    /\ assessment.blocked_patterns = << "rm\\s+.*-rf?\\s+/" >>

\* the request produced a command and ended normally without running it
Skipped == pc = "Done" /\ result # NoResult /\ ~Executed

\* the request ran its command and _execute_command came back with an outcome
Attempted ==
    /\ pc = "Done"
    /\ Executed
    /\ executions[Len(executions)] \in {"exit0", "nonzero", "timeout", "error"}

\* C11: every skipped command (dry-run, declined first confirmation, declined
\* second confirmation of a critical command) ends the request without error,
\* runs nothing, and appends one history entry for the request, marked
\* not-executed
C11_SkippedAppendsHistory ==
    Skipped =>
        history = << [query |-> query, command |-> result.command, executed |-> FALSE] >>

\* C12: a successful execution writes exactly one record and appends exactly
\* one history entry, marked executed; a command that was run never gets a
\* history entry marked not-executed
C12_SuccessOneRecordOneEntry ==
    /\ (pc = "Done" /\ executions = << "exit0" >>) =>
          /\ Len(store) = 1
          /\ history = << [query |-> query, command |-> result.command, executed |-> TRUE] >>
    /\ Attempted => \A i \in DOMAIN history : history[i].executed

\* C13: every command whose execution was attempted is in the store with
\* executed = true and success equal to the actual result (true on exit code 0,
\* false on a non-zero exit, an execution error or a timeout)
C13_AttemptRecordedWithOutcome ==
    Attempted =>
        /\ Len(store) = 1
        /\ store[1].command = result.command
        /\ store[1].executed
        /\ store[1].success = (executions[Len(executions)] = "exit0")

\* C14: a record is created for every request that reaches the gate, also when
\* the command is skipped, and then the record is marked not-executed
C14_SkippedIsRecorded ==
    Skipped =>
        /\ Len(store) = 1
        /\ store[1].command = result.command
        /\ ~store[1].executed

\* C15: a user interrupt during either confirmation prompt or during the
\* execution leaves the store consistent: no record of the request, or one
\* marked executed = false; and no record of the pipeline says executed = true
\* unless the execution came back with a definite result, which is its success
C15_InterruptLeavesStoreConsistent ==
    /\ pc = "Aborted" => \A i \in DOMAIN store : ~store[i].executed
    /\ \A i \in DOMAIN store :
          store[i].executed =>
              /\ Attempted
              /\ store[i].success = (executions[Len(executions)] = "exit0")

C15_Witness ==
    /\ pc = "Aborted"
    /\ executions = << "interrupt" >>
    /\ Granted(ExecutePrompt)
    /\ store = <<>>

\* what store_command was given, read off a StoredCommand
Fields(rec) ==
    [ command |-> rec.command, query |-> rec.query, explanation |-> rec.explanation,
      risk_level |-> rec.risk_level, executed |-> rec.executed, success |-> rec.success,
      output |-> rec.output ]

StoredIds == { store[i].id : i \in DOMAIN store }

\* C16: update_command_result with an id that is not in the store fails with a
\* NotFound error (and leaves the store unchanged)
C16_UpdateMissingIdFails ==
    (last_call.op = "update_command_result" /\ last_call.id \notin StoredIds)
        => last_call.raised = "NotFound"

\* C17: store_command followed immediately by get_history(limit=1) returns
\* exactly one record, the one just appended, equal to the input in command,
\* query, explanation, risk_level, executed, success and output
C17_StoreRoundTrip ==
    [][ (last_call.op = "store_command" /\ GetHistory(1))
            => /\ Len(last_call'.rows) = 1
               /\ last_call'.rows[1].id = last_call.id
               /\ Fields(last_call'.rows[1]) = last_call.input ]_vars

\* C18: clear_history(N), for every integer N >= 0, removes exactly the records
\* whose timestamp is older than N days and leaves every other record
\* untouched; clear_history() removes every record
C18_ClearRemovesExactlyOlder ==
    [][ /\ \A n \in {0, 1} :
              ClearHistory(<< n >>)
                  => LET NotOlder(row) == ~OlderThan(row, n)
                     IN  store' = SelectSeq(store, NotOlder)
        /\ ClearHistory(<<>>) => store' = <<>> ]_vars

\* C19: the ids returned by store_command are strictly increasing and pairwise
\* distinct, a record keeps its id for its whole life, and an id is never
\* assigned again, also after its record or every record has been deleted
C19_IdsNeverReused ==
    [][ /\ \A i, j \in DOMAIN issued' : i < j => issued'[i] < issued'[j]
        /\ \A i, j \in DOMAIN store' : i # j => store'[i].id # store'[j].id
        /\ \A k \in DOMAIN store' :
              IF store'[k].id \in StoredIds
              THEN \E j \in DOMAIN store :
                      /\ store[j].id = store'[k].id
                      /\ store[j].command = store'[k].command
                      /\ store[j].query = store'[k].query
                      /\ store[j].timestamp = store'[k].timestamp
              ELSE /\ store'[k].id \notin Range(issued)
                   /\ store'[k].id = issued'[Len(issued')] ]_vars

C19_Witness ==
    /\ Len(issued) = 2
    /\ StoredIds = {2}
    /\ store[1].executed /\ store[1].output = "out"
    /\ last_call.op = "clear_history" /\ last_call.days = << 1 >>

\* C20: the session history is bounded with first-in first-out eviction: after
\* every add_interaction, add_to_history, clear_history and import_session it
\* holds at most max_history entries, and adding an entry to a full history
\* evicts exactly the oldest entry and keeps the others in insertion order
C20_HistoryBoundedFifo ==
    [][ /\ Len(history') <= max_history
        /\ \A q \in Queries, executed \in BOOLEAN :
              (AddInteractionCall(q, "ls -la", executed) /\ Len(history) >= max_history)
                  => history' = Append(Tail(history),
                                       [query |-> q, command |-> "ls -la",
                                        executed |-> executed]) ]_vars

\* C23: a command is run at most once per request: after a timeout or any
\* other failure of _execute_command the gate does not run it again, the
\* timeout counts as a failed execution (nothing is stored as a success), and
\* the request has terminated
C23_NoRetryAfterFailure ==
    /\ Len(executions) <= 1
    /\ \A i \in DOMAIN executions :
          executions[i] \in {"nonzero", "timeout", "error"}
              => /\ pc = "Done"
                 /\ store = <<>>

C23_Witness ==
    /\ executions = << "timeout" >>
    /\ pc = "Done"
    /\ history # <<>>

\* C24: whenever the assessment of a command contains at least one warning,
\* the warnings are displayed during the request, at every level (low, medium,
\* high, critical), also when execution proceeds
C24_WarningsAlwaysDisplayed ==
    (result # NoResult /\ risk_assessment.warnings # <<>>)
        => displayed = risk_assessment.warnings

\* the rules of the table whose pattern matches a command of the corpus
RuleMatches ==
    [c \in Corpus |->
        {k \in DOMAIN DangerousPatterns : ReSearch(DangerousPatterns[k].re, CommandText[c], TRUE)}]

\* a set of numbers in ascending order
RECURSIVE Ascending(_)
Ascending(S) ==
    IF S = {} THEN <<>>
    ELSE LET least == CHOOSE n \in S : \A m \in S : n <= m
         IN  << least >> \o Ascending(S \ {least})

\* the warnings the n-th check of the heuristic scanner can give
CheckWarnings(n) ==
    CASE n = 1 -> {"Command contains multiple operations"}
      [] n = 2 -> {"Redirecting output to root-level directory"}
      [] n = 3 -> {"Using wildcards with destructive commands"}
      [] n = 4 -> {"Command requires elevated privileges"}
      [] n = 5 -> {SystemPathWarning[sp] : sp \in SystemPaths}
      [] n = 6 -> {"Command contains potentially suspicious characters"}

\* C25: validate evaluates every rule of the table: every rule whose pattern
\* matches gives its message to warnings, its pattern to blocked_patterns and
\* its weight to the score; warnings lists the matched rules' messages in table
\* order, then the heuristic warnings in check order, so len(warnings) =
\* matched rules + fired heuristics and len(blocked_patterns) = matched rules
C25_EveryMatchingRuleReported ==
    command # None =>
        LET matched == Ascending(RuleMatches[command])
            fired   == Ascending(FiredChecks[command])
        IN  /\ assessment.blocked_patterns =
                  [i \in DOMAIN matched |-> DangerousPatterns[matched[i]].pattern]
            /\ SubSeq(assessment.warnings, 1, Len(assessment.blocked_patterns)) =
                  [i \in DOMAIN matched |-> DangerousPatterns[matched[i]].message]
            /\ Len(assessment.warnings) = Len(matched) + Len(fired)
            /\ \A i \in DOMAIN fired :
                  assessment.warnings[Len(matched) + i] \in CheckWarnings(fired[i])
            /\ assessment.score =
                  Min(SumWeights(RuleMatches[command]) + 5 * Len(fired), 100)

C25_Witness ==
    /\ command # None
    /\ Cardinality(RuleMatches[command]) >= 3
    /\ Cardinality(FiredChecks[command]) >= 2
    /\ Len(assessment.warnings) = Cardinality(RuleMatches[command]) + Cardinality(FiredChecks[command])

\* C27: the final risk level is never lower, in the order low < medium < high
\* < critical, than the highest severity among the matched rules
C27_LevelAtLeastMaxSeverity ==
    (command # None /\ RuleMatches[command] # {})
        => Weight[assessment.risk_level] >= Weight[MaxSeverity(RuleMatches[command])]

C27_Witness ==
    /\ command # None
    /\ Cardinality(RuleMatches[command]) = 1
    /\ FiredChecks[command] # {}
    /\ MaxSeverity(RuleMatches[command]) = "high"
    /\ assessment.risk_level = "high"

\* C29: the scanner fires at most 6 checks, one warning for each, so a command
\* that matches no rule has a score of at most 30 and level low or medium, and
\* is_command_blocked is true only of commands that match at least one rule
C29_HeuristicsAloneNeverBlock ==
    command # None =>
        /\ Len(HeuristicWarnings(assessment)) <= 6
        /\ Len(HeuristicWarnings(assessment)) = Cardinality(FiredChecks[command])
        /\ RuleMatches[command] = {} =>
              /\ assessment.score <= 30
              /\ assessment.risk_level \in {"low", "medium"}
        /\ blocked => RuleMatches[command] # {}

C29_Witness ==
    /\ command # None
    /\ RuleMatches[command] = {}
    /\ Cardinality(FiredChecks[command]) = 6
    /\ assessment.score = 30
    /\ assessment.risk_level = "medium"
    /\ ~blocked

\* C26: update_command_result(id, success, output) on an existing id changes
\* exactly that one record's outcome fields (executed becomes true, success and
\* output take the given values): its id, command, query, explanation,
\* risk_level and timestamp, every other record, and the number of records are
\* unchanged
C26_UpdateChangesOneRecord ==
    [][ \A id \in UpdateIds, success \in BOOLEAN, output \in Outputs :
          (UpdateCommandResult(id, success, output) /\ id \in StoredIds)
              => /\ Len(store') = Len(store)
                 /\ Cardinality({i \in DOMAIN store : store[i].id = id}) = 1
                 /\ \A i \in DOMAIN store :
                       IF store[i].id = id
                       THEN /\ store'[i].executed
                            /\ store'[i].success = success
                            /\ store'[i].output = output
                            /\ store'[i].id = store[i].id
                            /\ store'[i].command = store[i].command
                            /\ store'[i].query = store[i].query
                            /\ store'[i].explanation = store[i].explanation
                            /\ store'[i].risk_level = store[i].risk_level
                            /\ store'[i].timestamp = store[i].timestamp
                       ELSE store'[i] = store[i] ]_vars

C26_Witness ==
    /\ last_call.op = "update_command_result"
    /\ Len(store) = 2
    /\ last_call.id = store[1].id
    /\ store[1].command = "rm -rf /" /\ store[1].risk_level = ""
    /\ store[1].executed /\ store[1].success /\ store[1].output = "out"
    /\ ~store[2].executed /\ store[2].output = ""

\* the request has gone through parse, whose result ask has received
Parsed == response # NoResponse /\ pc # "Idle"

\* C21: whenever the adapter's response is not the expected JSON object, parse
\* recovers with the fallback (confidence 0.6, one fallback-parsing warning,
\* the command taken from the raw output) and the request continues to the
\* assessment instead of ending with an error exit
C21_MalformedOutputRecovered ==
    (Parsed /\ ~response.error /\ Decoded[response.text].kind # "object")
        => /\ pc # "Exit1"
           /\ result # NoResult
           /\ result.confidence = 60
           /\ result.warnings = << FallbackWarning >>
           /\ risk_assessment = Assessments[system_paths][result.command]

\* C22: when the configured provider raises, generate_response gives the
\* mock's answer, so parse yields a candidate command and the request does not
\* end for want of one
C22_ProviderFailureFallsBackToMock ==
    (response # NoResponse /\ response.raised)
        => /\ ~response.error
           /\ response.text = MockResponse(response.query)
           /\ Parsed =>
                 /\ pc # "Exit1"
                 /\ result.command \in {"ls -la", "df -h", "echo 'Command not recognized'"}
                 /\ risk_assessment = Assessments[system_paths][result.command]

C22_Witness ==
    /\ response.raised
    /\ response.provider = "openai"
    /\ response.query = "Free DISK space"
    /\ result.command = "df -h"
    /\ pc = "Done"
    /\ executions = << "exit0" >>

\* the user has answered the second request as the earlier one, so far
SameAnswers ==
    /\ Len(prompts) <= Len(previous.prompts)
    /\ \A i \in DOMAIN prompts : prompts[i].answer = previous.prompts[i].answer

\* the risk levels a request has stored
StoredLevels(rows) == [i \in DOMAIN rows |-> rows[i].risk_level]

\* C28: two requests that yield the same command text (and get the same
\* assessment), run with the same flags and are answered alike, and differ
\* only in the adapter's risk_level, confidence or warnings, are asked the
\* same prompts, reach the same final state and store the same risk_level
C28_AdapterOpinionIgnored ==
    (previous # NoRequest /\ result # NoResult /\ risk_assessment = previous.risk_assessment
     /\ SameAnswers)
        => /\ \A i \in DOMAIN prompts : prompts[i].prompt = previous.prompts[i].prompt
           /\ pc = "Confirm1" =>
                 /\ Len(previous.prompts) > Len(prompts)
                 /\ previous.prompts[Len(prompts) + 1].prompt = ExecutePrompt
           /\ pc = "Confirm2" =>
                 /\ Len(previous.prompts) > Len(prompts)
                 /\ previous.prompts[Len(prompts) + 1].prompt = CriticalPrompt
           /\ pc \in {"Executing", "Done", "Aborted"} =>
                 /\ Len(prompts) = Len(previous.prompts)
                 /\ Executed <=> previous.executions # <<>>
           /\ (pc \in {"Done", "Aborted"} /\ executions = previous.executions) =>
                 /\ pc = previous.pc
                 /\ StoredLevels(SubSeq(store, Len(previous.store) + 1, Len(store)))
                       = StoredLevels(previous.store)

C28_Witness ==
    /\ previous # NoRequest
    /\ pc = "Done"
    /\ result.command = "rm -rf /"
    /\ previous.result.risk_level = "low" /\ result.risk_level = "critical"
    /\ Len(prompts) = 2 /\ prompts = previous.prompts
    /\ executions = << "exit0" >>
    /\ StoredLevels(store) = << "critical", "critical" >>
====
